---- MODULE Spec2Model ----
(***************************************************************************)
(* Model of BLEBlind (src/model.py): one session with a BLE blind.         *)
(*                                                                         *)
(* The session runs on one asyncio event loop.  A coroutine runs without   *)
(* interruption until it awaits something that really suspends: a          *)
(* contended lock, a transport call (establish_connection, get_services,   *)
(* read_gatt_char, write_gatt_char, stop_notify, disconnect) or a sleep.   *)
(* The variable running names the task that is inside such an              *)
(* uninterrupted stretch; every other task and the environment move only   *)
(* while running = NoTask.                                                 *)
(***************************************************************************)
EXTENDS Integers, Sequences, FiniteSets, TLC

\* ---------------------------------------------------------------- bounds
NumTasks == 2
MaxOps == 2
MaxConnects == 2
MaxDrops == 1
MaxCallbacks == 2
MaxFaultyOps == 1

\* ------------------------------------------------------ program constants
DEFAULT_ATTEMPTS == 3

None == 0
NoTask == 0
Tasks == 1..NumTasks
Sessions == 1..MaxConnects

\* Target positions handed to set_position; 300 needs both bytes.
Positions == {80, 300}
\* Values the device can hold before the first write (44 is 0x2C 0x00).
DevicePositions == {44}

\* Callbacks: "plain" only records the value, "selfun" calls its own
\* unregister closure from inside its invocation.
CallbackIds == {"plain", "selfun"}
SelfUnregistering == {"selfun"}

\* Error classes of the transport (bleak / bleak_retry_connector):
\*   soft     BleakDBusError      (subclass of BleakError)
\*   notfound BleakNotFoundError  (subclass of BleakError)
\*   generic  any other BleakError
ErrKinds == {"soft", "generic", "notfound"}

\* What the transport answers to the read/write calls of one operation:
\* the first `fails` calls raise `kind`, the later ones succeed.
Plans == {[kind |-> "none", fails |-> 0],
          [kind |-> "soft", fails |-> 2],
          [kind |-> "generic", fails |-> DEFAULT_ATTEMPTS],
          [kind |-> "notfound", fails |-> 1]}

VARIABLES
    client,       \* self._client: None or the stored session
    readChar,     \* self._position_read_char: None or the session it was resolved from
    writeChar,    \* self._position_write_char
    timerHandle,  \* self._disconnect_timer is not None
    timers,       \* number of scheduled, uncancelled call_later callbacks
    expected,     \* self._expected_disconnect
    callbacks,    \* self._callbacks
    position,     \* self._position
    fired,        \* last _fire_callbacks event: list at its start, calls made
    opHolder, opQueue,      \* self._operation_lock
    connHolder, connQueue,  \* self._connect_lock
    linkUp,       \* sessions whose link is up (client.is_connected)
    connects,     \* establish_connection calls started
    drops,        \* unsolicited drops so far
    devValue,     \* bytes the device holds
    ops,          \* foreground operations started
    faulty,       \* operations started against a failing transport
    running,      \* task inside an uninterrupted stretch, or NoTask
    task          \* per task: position in the code and locals

sess == <<client, readChar, writeChar>>
timerv == <<timerHandle, timers, expected>>
cbv == <<callbacks, position, fired>>
oplock == <<opHolder, opQueue>>
connlock == <<connHolder, connQueue>>
env == <<linkUp, connects, drops, devValue, ops, faulty>>
vars == <<sess, timerv, cbv, oplock, connlock, env, running, task>>

\* No _fire_callbacks event in the operation that is ending.
NotFired == [start |-> <<>>, log |-> <<>>]

IdleTask == [pc |-> "idle", op |-> "none", arg |-> 0, ensureLeft |-> 0,
             attempt |-> 0, plan |-> [kind |-> "none", fails |-> 0],
             calls |-> 0, discs |-> 0, sleeps |-> 0,
             locClient |-> None, data |-> <<>>,
             exc |-> "none", result |-> "none", waited |-> FALSE]

Init ==
    /\ client = None /\ readChar = None /\ writeChar = None
    /\ timerHandle = FALSE /\ timers = 0 /\ expected = FALSE
    /\ callbacks = <<>> /\ position = 0
    /\ fired = NotFired
    /\ opHolder = NoTask /\ opQueue = <<>>
    /\ connHolder = NoTask /\ connQueue = <<>>
    /\ linkUp = {} /\ connects = 0 /\ drops = 0
    /\ devValue \in {<<v % 256, v \div 256>> : v \in DevicePositions}
    /\ ops = 0 /\ faulty = 0
    /\ running = NoTask
    /\ task = [t \in Tasks |-> IdleTask]

\* ---------------------------------------------------------------- helpers

\* struct.pack("<H", v): two bytes, least significant first.
Pack(v) == <<v % 256, (v \div 256) % 256>>

\* struct.pack raises struct.error outside 0..65535.
PackOK(v) == v \in 0..65535

\* struct.unpack("<H", data) needs exactly two bytes.
UnpackOK(data) == Len(data) = 2

\* As Unpack, but most significant byte first (">H").
UnpackBigEndian(data) == data[2] + 256 * data[1]

\* struct.unpack("<H", data)
Unpack(data) == data[1] + 256 * data[2]

\* list.remove(x): drops the first occurrence.
RemoveFirst(s, x) ==
    LET i == CHOOSE k \in 1..Len(s) : s[k] = x /\ \A j \in 1..(k - 1) : s[j] # x
    IN  SubSeq(s, 1, i - 1) \o SubSeq(s, i + 1, Len(s))

\* for callback in self._callbacks: callback(self._position)
\* The loop walks the live list by index; a callback that removes itself
\* shifts the rest of the list one place to the left.
RECURSIVE FireLoop(_, _, _, _)
FireLoop(cbs, i, pos, log) ==
    IF i > Len(cbs) THEN [cbs |-> cbs, log |-> log]
    ELSE LET cb == cbs[i]
             after == IF cb \in SelfUnregistering THEN RemoveFirst(cbs, cb) ELSE cbs
         IN  FireLoop(after, i + 1, pos, Append(log, <<cb, pos>>))

\* _fire_callbacks with the position pos: new list and record of the event.
FireCallbacks(pos) ==
    LET r == FireLoop(callbacks, 1, pos, <<>>)
    IN  /\ callbacks' = r.cbs
        /\ fired' = [start |-> callbacks, log |-> r.log]

\* self._client and self._client.is_connected
IsConnected == client # None /\ client \in linkUp

\* asyncio.Lock.acquire returns at once only when the lock is free and
\* nobody waits; release hands the lock to the first waiter.
LockFree(holder, queue) == holder = NoTask /\ queue = <<>>

ReleasedHolder(queue) == IF queue = <<>> THEN NoTask ELSE Head(queue)

ReleasedQueue(queue) == IF queue = <<>> THEN <<>> ELSE Tail(queue)

\* As ReleaseOpLock, but the lock stays with its holder.
ReleaseOpLockKept ==
    /\ opHolder' = opHolder
    /\ opQueue' = opQueue

ReleaseOpLock ==
    /\ opHolder' = ReleasedHolder(opQueue)
    /\ opQueue' = ReleasedQueue(opQueue)

\* As ReleaseConnLock, but the lock stays with its holder.
ReleaseConnLockKept ==
    /\ connHolder' = connHolder
    /\ connQueue' = connQueue

ReleaseConnLock ==
    /\ connHolder' = ReleasedHolder(connQueue)
    /\ connQueue' = ReleasedQueue(connQueue)

\* As ResetDisconnectTimer, but the pending timer is not cancelled.
ResetDisconnectTimerNoCancel ==
    /\ timers' = timers + 1
    /\ expected' = FALSE
    /\ timerHandle' = TRUE

\* _reset_disconnect_timer: cancel the pending timer, arm a new one.
ResetDisconnectTimer ==
    /\ timers' = (IF timerHandle THEN timers - 1 ELSE timers) + 1
    /\ expected' = FALSE
    /\ timerHandle' = TRUE

\* The operation of task t ends: it returned ("ok") or raised res.
Finished(t, res) ==
    [task[t] EXCEPT !.pc = "done", !.result = res, !.locClient = None]

\* Where a task goes when _ensure_connected returns: update() calls it
\* twice (once itself, once through _get_position), set_position once.
AfterEnsure(t) ==
    [task[t] EXCEPT !.pc = IF task[t].ensureLeft > 1 THEN "ensure" ELSE "op_acquire",
                    !.ensureLeft = task[t].ensureLeft - 1,
                    !.locClient = None]

\* ------------------------------------------------------------ entry points

\* Tasks are interchangeable: a new coroutine runs in the first free one.
FreeTask(t) ==
    /\ task[t].pc = "idle"
    /\ \A u \in Tasks : u < t => task[u].pc # "idle"

\* update(): await self._ensure_connected(); await self._get_position()
StartUpdate(t, pl) ==
    /\ running = NoTask /\ FreeTask(t) /\ ops < MaxOps
    /\ pl.fails = 0 \/ faulty < MaxFaultyOps
    /\ task' = [task EXCEPT ![t] = [IdleTask EXCEPT !.pc = "ensure", !.op = "get",
                                        !.ensureLeft = 2, !.plan = pl]]
    /\ running' = t
    /\ ops' = ops + 1
    /\ faulty' = IF pl.fails = 0 THEN faulty ELSE faulty + 1
    /\ UNCHANGED <<sess, timerv, cbv, oplock, connlock, linkUp, connects, drops, devValue>>

\* set_position(position): await self._set_position(position); fire callbacks
StartSetPosition(t, v, pl) ==
    /\ running = NoTask /\ FreeTask(t) /\ ops < MaxOps
    /\ pl.fails = 0 \/ faulty < MaxFaultyOps
    /\ task' = [task EXCEPT ![t] = [IdleTask EXCEPT !.pc = "ensure", !.op = "set",
                                        !.arg = v, !.ensureLeft = 1, !.plan = pl]]
    /\ running' = t
    /\ ops' = ops + 1
    /\ faulty' = IF pl.fails = 0 THEN faulty ELSE faulty + 1
    /\ UNCHANGED <<sess, timerv, cbv, oplock, connlock, linkUp, connects, drops, devValue>>

\* stop(): await self._execute_disconnect()
StartStop(t) ==
    /\ running = NoTask /\ FreeTask(t) /\ ops < MaxOps
    /\ task' = [task EXCEPT ![t] = [IdleTask EXCEPT !.pc = "disc", !.op = "stop"]]
    /\ running' = t
    /\ ops' = ops + 1
    /\ UNCHANGED <<sess, timerv, cbv, oplock, connlock, linkUp, connects, drops, devValue, faulty>>

\* The idle timer fires: _disconnect clears the handle and creates the
\* task that runs _execute_timed_disconnect; t is that new task.
Disconnect(t) ==
    /\ running = NoTask /\ FreeTask(t) /\ timers > 0
    /\ timerHandle' = FALSE
    /\ timers' = timers - 1
    /\ task' = [task EXCEPT ![t] = [IdleTask EXCEPT !.pc = "created", !.op = "timed"]]
    /\ UNCHANGED <<sess, expected, cbv, oplock, connlock, env, running>>

\* The event loop runs the new task: _execute_timed_disconnect starts.
ExecuteTimedDisconnect(t) ==
    /\ running = NoTask /\ task[t].pc = "created"
    /\ task' = [task EXCEPT ![t].pc = "disc"]
    /\ running' = t
    /\ UNCHANGED <<sess, timerv, cbv, oplock, connlock, env>>

\* ------------------------------------------------------- _ensure_connected

\* Lines 134-137: the unlocked fast path, else take the connect lock.
EnsureConnected(t) ==
    /\ running = t /\ task[t].pc = "ensure"
    /\ IF IsConnected
       THEN /\ ResetDisconnectTimer
            /\ task' = [task EXCEPT ![t] = AfterEnsure(t)]
            /\ UNCHANGED <<connlock, running>>
       ELSE IF LockFree(connHolder, connQueue)
       THEN /\ connHolder' = t
            /\ task' = [task EXCEPT ![t].pc = "conn_locked"]
            /\ UNCHANGED <<connQueue, timerv, running>>
       ELSE /\ connQueue' = Append(connQueue, t)
            /\ task' = [task EXCEPT ![t].pc = "conn_wait", ![t].waited = TRUE]
            /\ running' = NoTask
            /\ UNCHANGED <<connHolder, timerv>>
    /\ UNCHANGED <<sess, cbv, oplock, env>>

\* The connect lock was handed to the waiting task.
EnsureLockAcquired(t) ==
    /\ running = NoTask /\ task[t].pc = "conn_wait" /\ connHolder = t
    /\ task' = [task EXCEPT ![t].pc = "conn_locked"]
    /\ running' = t
    /\ UNCHANGED <<sess, timerv, cbv, oplock, connlock, env>>

RecheckConnectedNever == FALSE

\* Line 139: the check repeated while holding the lock.
RecheckConnected == IsConnected

\* As EnsureLocked, but the return of line 141 leaves with the lock held.
EnsureLockedReturnKeepsLock(t) ==
    /\ running = t /\ task[t].pc = "conn_locked"
    /\ IF RecheckConnected
       THEN /\ ResetDisconnectTimer
            /\ task' = [task EXCEPT ![t] = AfterEnsure(t)]
            /\ UNCHANGED <<connects, running, connlock>>
       ELSE /\ connects < MaxConnects
            /\ connects' = connects + 1
            /\ task' = [task EXCEPT ![t].pc = "connecting", ![t].locClient = connects + 1]
            /\ running' = NoTask
            /\ UNCHANGED <<timerv, connlock>>
    /\ UNCHANGED <<sess, cbv, oplock, linkUp, drops, devValue, ops, faulty>>

\* Lines 138-150: holding the lock; return if connected, else connect.
EnsureLocked(t) ==
    /\ running = t /\ task[t].pc = "conn_locked"
    /\ IF RecheckConnected
       THEN /\ ResetDisconnectTimer
            /\ ReleaseConnLock
            /\ task' = [task EXCEPT ![t] = AfterEnsure(t)]
            /\ UNCHANGED <<connects, running>>
       ELSE /\ connects < MaxConnects
            /\ connects' = connects + 1
            /\ task' = [task EXCEPT ![t].pc = "connecting", ![t].locClient = connects + 1]
            /\ running' = NoTask
            /\ UNCHANGED <<timerv, connlock>>
    /\ UNCHANGED <<sess, cbv, oplock, linkUp, drops, devValue, ops, faulty>>

\* _resolve_characteristics(services): a handle is overwritten only when
\* the catalogue has it; the result looks at the stored handles.
ResolvedRead(s, cat) == IF "read" \in cat THEN s ELSE readChar

ResolvedWrite(s, cat) == IF "write" \in cat THEN s ELSE writeChar

ResolveCharacteristics(s, cat) ==
    ResolvedRead(s, cat) # None /\ ResolvedWrite(s, cat) # None

\* establish_connection returned a client whose cached catalogue is cat.
\* Lines 151-158.
Connected(t, cat) ==
    /\ running = NoTask /\ task[t].pc = "connecting"
    /\ LET s == task[t].locClient IN
       /\ linkUp' = linkUp \cup {s}
       /\ readChar' = ResolvedRead(s, cat)
       /\ writeChar' = ResolvedWrite(s, cat)
       /\ IF ResolveCharacteristics(s, cat)
          THEN /\ client' = s
               /\ ResetDisconnectTimer
               /\ ReleaseConnLock
               /\ task' = [task EXCEPT ![t] = AfterEnsure(t)]
               /\ running' = t
          ELSE /\ task' = [task EXCEPT ![t].pc = "get_services"]
               /\ UNCHANGED <<client, timerv, connlock, running>>
    /\ UNCHANGED <<cbv, oplock, connects, drops, devValue, ops, faulty>>

\* As ConnectFailed, but the connect lock is not given up.
ConnectFailedKeepsLock(t, e) ==
    /\ running = NoTask /\ task[t].pc = "connecting"
    /\ task' = [task EXCEPT ![t] = Finished(t, e)]
    /\ running' = t
    /\ UNCHANGED <<sess, timerv, cbv, oplock, connlock, env>>

\* establish_connection raised after its own retries: the lock is
\* released by the async with and the error leaves _ensure_connected.
ConnectFailed(t, e) ==
    /\ running = NoTask /\ task[t].pc = "connecting"
    /\ ReleaseConnLock
    /\ task' = [task EXCEPT ![t] = Finished(t, e)]
    /\ running' = t
    /\ UNCHANGED <<sess, timerv, cbv, oplock, env>>

\* client.get_services() returned the catalogue cat.  Lines 155-158: the
\* result of the second resolution is not looked at.
ServicesFetched(t, cat) ==
    /\ running = NoTask /\ task[t].pc = "get_services"
    /\ LET s == task[t].locClient IN
       /\ readChar' = ResolvedRead(s, cat)
       /\ writeChar' = ResolvedWrite(s, cat)
       /\ client' = s
    /\ ResetDisconnectTimer
    /\ ReleaseConnLock
    /\ task' = [task EXCEPT ![t] = AfterEnsure(t)]
    /\ running' = t
    /\ UNCHANGED <<cbv, oplock, env>>

\* client.get_services() raised.
ServicesFailed(t) ==
    /\ running = NoTask /\ task[t].pc = "get_services"
    /\ ReleaseConnLock
    /\ task' = [task EXCEPT ![t] = Finished(t, "generic")]
    /\ running' = t
    /\ UNCHANGED <<sess, timerv, cbv, oplock, env>>

\* ------------------------- _get_position_while_connected / _set_position_while_connected

\* async with self._operation_lock (lines 248, 290): enter or queue.
OperationLockFreeAlways == TRUE

OperationLockFree == LockFree(opHolder, opQueue)

WhileConnected(t) ==
    /\ running = t /\ task[t].pc = "op_acquire"
    /\ IF OperationLockFree
       THEN /\ opHolder' = t
            /\ task' = [task EXCEPT ![t].pc = "attempt", ![t].waited = FALSE]
            /\ UNCHANGED <<opQueue, running>>
       ELSE /\ opQueue' = Append(opQueue, t)
            /\ task' = [task EXCEPT ![t].pc = "op_wait", ![t].waited = FALSE]
            /\ running' = NoTask
            /\ UNCHANGED opHolder
    /\ UNCHANGED <<sess, timerv, cbv, connlock, env>>

\* The operation lock was handed to the waiting task.
OperationLockAcquired(t) ==
    /\ running = NoTask /\ task[t].pc = "op_wait" /\ opHolder = t
    /\ task' = [task EXCEPT ![t].pc = "attempt"]
    /\ running' = t
    /\ UNCHANGED <<sess, timerv, cbv, oplock, connlock, env>>

\* The handle the operation needs: lines 114 and 121.
NeededChar(t) == IF task[t].op = "get" THEN readChar ELSE writeChar

\* One pass of the retry loop: _read_position_locked (lines 119-123) or
\* _execute_position_locked (lines 111-117) up to the transport call.
\* AssertionError, CharacteristicMissingError and struct.error are not
\* bleak errors: nothing retries them, the async with releases the lock.
\* (Assertions are taken as enabled, the default of the interpreter.)
ExecuteLocked(t) ==
    /\ running = t /\ task[t].pc = "attempt"
    /\ IF client = None
       THEN /\ ReleaseOpLock
            /\ task' = [task EXCEPT ![t] = Finished(t, "assertion")]
            /\ UNCHANGED running
       ELSE IF NeededChar(t) = None
       THEN /\ ReleaseOpLock
            /\ task' = [task EXCEPT ![t] = Finished(t, "charmissing")]
            /\ UNCHANGED running
       ELSE IF task[t].op = "set" /\ ~PackOK(task[t].arg)
       THEN /\ ReleaseOpLock
            /\ task' = [task EXCEPT ![t] = Finished(t, "struct")]
            /\ UNCHANGED running
       ELSE /\ task' = [task EXCEPT ![t].pc = "io", ![t].calls = @ + 1,
                                    ![t].locClient = client]
            /\ running' = NoTask
            /\ UNCHANGED oplock
    /\ UNCHANGED <<sess, timerv, cbv, connlock, env>>

\* What the transport call in flight of task t answers: the planned
\* failures first; after them the call works if the link is still up.
Outcome(t) ==
    IF task[t].calls <= task[t].plan.fails THEN task[t].plan.kind
    ELSE IF task[t].locClient \in linkUp THEN "ok"
    ELSE "generic"

\* As ReadDone, but a payload that cannot be decoded raises to the caller.
ReadDoneDecodeRaises(t, data) ==
    /\ running = NoTask /\ task[t].pc = "io" /\ task[t].op = "get"
    /\ Outcome(t) = "ok"
    /\ IF UnpackOK(data)
       THEN /\ position' = Unpack(data)
            /\ FireCallbacks(position')
            /\ task' = [task EXCEPT ![t] = [Finished(t, "ok") EXCEPT !.data = data]]
       ELSE /\ task' = [task EXCEPT ![t] = [Finished(t, "struct") EXCEPT !.data = data]]
            /\ UNCHANGED cbv
    /\ ReleaseOpLock
    /\ running' = t
    /\ UNCHANGED <<sess, timerv, connlock, env>>

\* read_gatt_char returned data (the local r of line 123):
\* _notification_handler (lines 102-109) decodes it, fires the callbacks,
\* and the operation returns.
ReadDone(t, data) ==
    /\ running = NoTask /\ task[t].pc = "io" /\ task[t].op = "get"
    /\ Outcome(t) = "ok"
    /\ position' = IF UnpackOK(data) THEN Unpack(data) ELSE position
    /\ FireCallbacks(position')
    /\ ReleaseOpLock
    /\ task' = [task EXCEPT ![t] = [Finished(t, "ok") EXCEPT !.data = data]]
    /\ running' = t
    /\ UNCHANGED <<sess, timerv, connlock, env>>

\* write_gatt_char returned: the device holds the bytes written; back in
\* set_position (line 370) with the lock released.
WriteDone(t) ==
    /\ running = NoTask /\ task[t].pc = "io" /\ task[t].op = "set"
    /\ Outcome(t) = "ok"
    /\ devValue' = Pack(task[t].arg)
    /\ ReleaseOpLock
    /\ task' = [task EXCEPT ![t].pc = "fire", ![t].locClient = None]
    /\ running' = t
    /\ UNCHANGED <<sess, timerv, cbv, connlock, linkUp, connects, drops, ops, faulty>>

\* set_position line 370: self._fire_callbacks()
SetPositionFire(t) ==
    /\ running = t /\ task[t].pc = "fire"
    /\ FireCallbacks(position)
    /\ task' = [task EXCEPT ![t] = Finished(t, "ok")]
    /\ UNCHANGED <<sess, timerv, position, oplock, connlock, env, running>>

\* The transport call raised.  BleakDBusError: sleep BLEAK_BACKOFF_TIME
\* first (lines 324, 349); any other BleakError: disconnect at once.
TransportError(t) ==
    /\ running = NoTask /\ task[t].pc = "io"
    /\ Outcome(t) # "ok"
    /\ IF Outcome(t) = "soft"
       THEN /\ task' = [task EXCEPT ![t].pc = "backoff", ![t].exc = "soft",
                                    ![t].sleeps = @ + 1, ![t].locClient = None]
            /\ UNCHANGED running
       ELSE /\ task' = [task EXCEPT ![t].pc = "disc", ![t].exc = Outcome(t),
                                    ![t].discs = @ + 1, ![t].locClient = None]
            /\ running' = t
    /\ UNCHANGED <<sess, timerv, cbv, oplock, connlock, env>>

\* The backoff sleep is over: await self._execute_disconnect()
BackoffDone(t) ==
    /\ running = NoTask /\ task[t].pc = "backoff"
    /\ task' = [task EXCEPT ![t].pc = "disc", ![t].discs = @ + 1]
    /\ running' = t
    /\ UNCHANGED <<sess, timerv, cbv, oplock, connlock, env>>

\* retry_bluetooth_connection_error(DEFAULT_ATTEMPTS), lines 317 and 342:
\* the handler re-raised a bleak error; the last attempt lets it out (and
\* the async with releases the operation lock), an earlier one waits and
\* runs the function again.  The wrapper belongs to bleak_retry_connector;
\* its wait is a suspension point and is not counted in sleeps, which
\* counts the asyncio.sleep(BLEAK_BACKOFF_TIME) of lines 324 and 349.
RetryBluetoothConnectionError(t) ==
    /\ running = t /\ task[t].pc = "reraise"
    /\ IF task[t].attempt = DEFAULT_ATTEMPTS - 1
       THEN /\ ReleaseOpLock
            /\ task' = [task EXCEPT ![t] = Finished(t, task[t].exc)]
            /\ UNCHANGED running
       ELSE /\ task' = [task EXCEPT ![t].pc = "retry_wait"]
            /\ running' = NoTask
            /\ UNCHANGED oplock
    /\ UNCHANGED <<sess, timerv, cbv, connlock, env>>

\* The wait of the retry wrapper is over: next attempt.
RetryAgain(t) ==
    /\ running = NoTask /\ task[t].pc = "retry_wait"
    /\ task' = [task EXCEPT ![t].pc = "attempt", ![t].attempt = @ + 1, ![t].exc = "none"]
    /\ running' = t
    /\ UNCHANGED <<sess, timerv, cbv, oplock, connlock, env>>

\* ------------------------------------------------------ _execute_disconnect

\* async with self._connect_lock (line 203): enter or queue.
ExecuteDisconnect(t) ==
    /\ running = t /\ task[t].pc = "disc"
    /\ IF LockFree(connHolder, connQueue)
       THEN /\ connHolder' = t
            /\ task' = [task EXCEPT ![t].pc = "disc_locked"]
            /\ UNCHANGED <<connQueue, running>>
       ELSE /\ connQueue' = Append(connQueue, t)
            /\ task' = [task EXCEPT ![t].pc = "disc_wait"]
            /\ running' = NoTask
            /\ UNCHANGED connHolder
    /\ UNCHANGED <<sess, timerv, cbv, oplock, env>>

DisconnectLockAcquired(t) ==
    /\ running = NoTask /\ task[t].pc = "disc_wait" /\ connHolder = t
    /\ task' = [task EXCEPT ![t].pc = "disc_locked"]
    /\ running' = t
    /\ UNCHANGED <<sess, timerv, cbv, oplock, connlock, env>>

\* Where _execute_disconnect returns to: stop() and the timed disconnect
\* are over, the handlers of lines 332/339/357/364 re-raise.
AfterDisconnect(t) ==
    IF task[t].op \in {"stop", "timed"} THEN Finished(t, "ok")
    ELSE [task[t] EXCEPT !.pc = "reraise", !.locClient = None]

\* As DisconnectLocked, but the write handle is left as it was.
DisconnectLockedKeepsWrite(t) ==
    /\ running = t /\ task[t].pc = "disc_locked"
    /\ expected' = TRUE
    /\ client' = None
    /\ readChar' = None
    /\ IF IsConnected
       THEN /\ task' = [task EXCEPT ![t].pc = IF readChar # None THEN "stop_notify"
                                               ELSE "disconnecting",
                                    ![t].locClient = client]
            /\ running' = NoTask
            /\ UNCHANGED connlock
       ELSE /\ ReleaseConnLock
            /\ task' = [task EXCEPT ![t] = AfterDisconnect(t)]
            /\ UNCHANGED running
    /\ UNCHANGED <<writeChar, timerHandle, timers, cbv, oplock, env>>

\* As DisconnectLocked, but the session and the handles are cleared only
\* when the session is connected.
DisconnectLockedOnlyWhenConnected(t) ==
    /\ running = t /\ task[t].pc = "disc_locked"
    /\ expected' = TRUE
    /\ IF IsConnected
       THEN /\ client' = None
            /\ readChar' = None
            /\ writeChar' = None
            /\ task' = [task EXCEPT ![t].pc = IF readChar # None THEN "stop_notify"
                                               ELSE "disconnecting",
                                    ![t].locClient = client]
            /\ running' = NoTask
            /\ UNCHANGED connlock
       ELSE /\ ReleaseConnLock
            /\ task' = [task EXCEPT ![t] = AfterDisconnect(t)]
            /\ UNCHANGED <<sess, running>>
    /\ UNCHANGED <<timerHandle, timers, cbv, oplock, env>>

\* As DisconnectLocked, but the pending idle timer is cancelled as well.
DisconnectLockedCancelsTimer(t) ==
    /\ running = t /\ task[t].pc = "disc_locked"
    /\ expected' = TRUE
    /\ client' = None
    /\ readChar' = None
    /\ writeChar' = None
    /\ timerHandle' = FALSE
    /\ timers' = IF timerHandle THEN timers - 1 ELSE timers
    /\ IF IsConnected
       THEN /\ task' = [task EXCEPT ![t].pc = IF readChar # None THEN "stop_notify"
                                               ELSE "disconnecting",
                                    ![t].locClient = client]
            /\ running' = NoTask
            /\ UNCHANGED connlock
       ELSE /\ ReleaseConnLock
            /\ task' = [task EXCEPT ![t] = AfterDisconnect(t)]
            /\ UNCHANGED running
    /\ UNCHANGED <<cbv, oplock, env>>

\* Lines 204-211 under the lock.
DisconnectLocked(t) ==
    /\ running = t /\ task[t].pc = "disc_locked"
    /\ expected' = TRUE
    /\ client' = None
    /\ readChar' = None
    /\ writeChar' = None
    /\ IF IsConnected
       THEN /\ task' = [task EXCEPT ![t].pc = IF readChar # None THEN "stop_notify"
                                               ELSE "disconnecting",
                                    ![t].locClient = client]
            /\ running' = NoTask
            /\ UNCHANGED connlock
       ELSE /\ ReleaseConnLock
            /\ task' = [task EXCEPT ![t] = AfterDisconnect(t)]
            /\ UNCHANGED running
    /\ UNCHANGED <<timerHandle, timers, cbv, oplock, env>>

\* client.stop_notify returned, or raised a BleakError that line 214
\* catches: next is await client.disconnect().
StopNotifyDone(t) ==
    /\ running = NoTask /\ task[t].pc = "stop_notify"
    /\ task' = [task EXCEPT ![t].pc = "disconnecting"]
    /\ UNCHANGED <<sess, timerv, cbv, oplock, connlock, env, running>>

\* client.disconnect() returned: the link is down, the lock is released.
DisconnectDone(t) ==
    /\ running = NoTask /\ task[t].pc = "disconnecting"
    /\ linkUp' = linkUp \ {task[t].locClient}
    /\ ReleaseConnLock
    /\ task' = [task EXCEPT ![t] = AfterDisconnect(t)]
    /\ running' = t
    /\ UNCHANGED <<sess, timerv, cbv, oplock, connects, drops, devValue, ops, faulty>>

\* ------------------------------------------------------------- environment

\* The operation hands its result to its caller, which resumes in the
\* same stretch; the task is free for the next operation.
Return(t) ==
    /\ running = t /\ task[t].pc = "done"
    /\ task' = [task EXCEPT ![t] = IdleTask]
    /\ running' = NoTask
    /\ fired' = NotFired
    /\ UNCHANGED <<sess, timerv, callbacks, position, oplock, connlock, env>>

\* _disconnected (lines 174-185): the level at which the notification of a
\* link going down is logged, decided by the flag at that moment.
Disconnected == IF expected THEN "debug" ELSE "warning"

\* The link of session s drops without a disconnect() of ours.
UnsolicitedDrop(s) ==
    /\ running = NoTask /\ s \in linkUp /\ drops < MaxDrops
    /\ linkUp' = linkUp \ {s}
    /\ drops' = drops + 1
    /\ UNCHANGED <<sess, timerv, cbv, oplock, connlock, connects, devValue, ops, faulty, running, task>>

\* register_callback(callback), lines 87-96.
RegisterCallback(c) ==
    /\ running = NoTask /\ Len(callbacks) < MaxCallbacks
    /\ callbacks' = Append(callbacks, c)
    /\ UNCHANGED <<sess, timerv, position, fired, oplock, connlock, env, running, task>>

\* The closure register_callback returned, called from outside a callback.
UnregisterCallback(c) ==
    /\ running = NoTask /\ \E i \in 1..Len(callbacks) : callbacks[i] = c
    /\ callbacks' = RemoveFirst(callbacks, c)
    /\ UNCHANGED <<sess, timerv, position, fired, oplock, connlock, env, running, task>>

\* Payloads a read can deliver: the device's two bytes, or a short one.
ReadPayloads == {devValue, <<devValue[1]>>}

\* Catalogues a session can show: with or without each characteristic.
Catalogues == SUBSET {"read", "write"}

Next ==
    \/ \E t \in Tasks, pl \in Plans : StartUpdate(t, pl)
    \/ \E t \in Tasks, v \in Positions, pl \in Plans : StartSetPosition(t, v, pl)
    \/ \E t \in Tasks : StartStop(t)
    \/ \E t \in Tasks : Disconnect(t)
    \/ \E t \in Tasks : ExecuteTimedDisconnect(t)
    \/ \E t \in Tasks : EnsureConnected(t)
    \/ \E t \in Tasks : EnsureLockAcquired(t)
    \/ \E t \in Tasks : EnsureLocked(t)
    \/ \E t \in Tasks, cat \in Catalogues : Connected(t, cat)
    \/ \E t \in Tasks, e \in {"notfound", "generic"} : ConnectFailed(t, e)
    \/ \E t \in Tasks, cat \in Catalogues : ServicesFetched(t, cat)
    \/ \E t \in Tasks : ServicesFailed(t)
    \/ \E t \in Tasks : WhileConnected(t)
    \/ \E t \in Tasks : OperationLockAcquired(t)
    \/ \E t \in Tasks : ExecuteLocked(t)
    \/ \E t \in Tasks, data \in ReadPayloads : ReadDone(t, data)
    \/ \E t \in Tasks : WriteDone(t)
    \/ \E t \in Tasks : SetPositionFire(t)
    \/ \E t \in Tasks : TransportError(t)
    \/ \E t \in Tasks : BackoffDone(t)
    \/ \E t \in Tasks : RetryBluetoothConnectionError(t)
    \/ \E t \in Tasks : RetryAgain(t)
    \/ \E t \in Tasks : ExecuteDisconnect(t)
    \/ \E t \in Tasks : DisconnectLockAcquired(t)
    \/ \E t \in Tasks : DisconnectLocked(t)
    \/ \E t \in Tasks : StopNotifyDone(t)
    \/ \E t \in Tasks : DisconnectDone(t)
    \/ \E t \in Tasks : Return(t)
    \/ \E s \in Sessions : UnsolicitedDrop(s)
    \/ \E c \in CallbackIds : RegisterCallback(c)
    \/ \E c \in CallbackIds : UnregisterCallback(c)

Spec == Init /\ [][Next]_vars

\* ---------------------------------------------------------------- fairness

\* The steps task t takes by itself once its coroutine exists: the event
\* loop resumes it when it is ready, and the transport call or sleep it
\* waits for ends.
TaskStep(t) ==
    \/ ExecuteTimedDisconnect(t)
    \/ EnsureConnected(t)
    \/ EnsureLockAcquired(t)
    \/ EnsureLocked(t)
    \/ \E cat \in Catalogues : Connected(t, cat)
    \/ \E e \in {"notfound", "generic"} : ConnectFailed(t, e)
    \/ \E cat \in Catalogues : ServicesFetched(t, cat)
    \/ ServicesFailed(t)
    \/ WhileConnected(t)
    \/ OperationLockAcquired(t)
    \/ ExecuteLocked(t)
    \/ \E data \in ReadPayloads : ReadDone(t, data)
    \/ WriteDone(t)
    \/ SetPositionFire(t)
    \/ TransportError(t)
    \/ BackoffDone(t)
    \/ RetryBluetoothConnectionError(t)
    \/ RetryAgain(t)
    \/ ExecuteDisconnect(t)
    \/ DisconnectLockAcquired(t)
    \/ DisconnectLocked(t)
    \/ StopNotifyDone(t)
    \/ DisconnectDone(t)
    \/ Return(t)

\* _ensure_connected calls task t still has to make.
EnsureCallsLeft(t) ==
    IF task[t].pc \in {"ensure", "conn_wait", "conn_locked"} THEN task[t].ensureLeft
    ELSE IF task[t].pc \in {"connecting", "get_services"} THEN task[t].ensureLeft - 1
    ELSE 0

RECURSIVE EnsureCallsLeftUpTo(_)
EnsureCallsLeftUpTo(n) ==
    IF n = 0 THEN 0 ELSE EnsureCallsLeft(n) + EnsureCallsLeftUpTo(n - 1)

\* An operation that calls _ensure_connected n times starts only when the
\* sessions left suffice for every call due, so that no started operation
\* is held up by the bound on sessions.
SessionsSuffice(n) == connects + EnsureCallsLeftUpTo(NumTasks) + n <= MaxConnects

\* The callback list stays as constructed: callbacks run inside
\* _fire_callbacks, take no lock and never suspend.
LiveNext ==
    \/ \E t \in Tasks, pl \in Plans : SessionsSuffice(2) /\ StartUpdate(t, pl)
    \/ \E t \in Tasks, v \in Positions, pl \in Plans :
           SessionsSuffice(1) /\ StartSetPosition(t, v, pl)
    \/ \E t \in Tasks : StartStop(t)
    \/ \E t \in Tasks : Disconnect(t)
    \/ \E t \in Tasks : TaskStep(t)
    \/ \E s \in Sessions : UnsolicitedDrop(s)

\* Fair scheduling and transport calls that terminate: every coroutine
\* that can take its next step takes it.
LiveSpec == Init /\ [][LiveNext]_vars /\ \A t \in Tasks : WF_vars(TaskStep(t))

\* ------------------------------------------------------------------ claims

\* Tasks whose read_gatt_char / write_gatt_char call is in flight.
InFlight == {t \in Tasks : task[t].pc = "io"}

\* C1: whatever the interleaving of update and set_position calls, at most
\* one transport read/write call is in flight at any instant.
C1_OneTransportCallInFlight == Cardinality(InFlight) <= 1

\* Two operations contend: one has its call in flight, the other queues
\* on the operation lock.
C1_Witness ==
    \E t, u \in Tasks : /\ task[t].pc = "io"
                        /\ task[u].pc = "op_wait"
                        /\ opHolder = t

\* Number of calls the event recorded in fired made to callback c with value v.
Invocations(c, v) ==
    Cardinality({j \in 1..Len(fired.log) : fired.log[j] = <<c, v>>})

\* Number of registrations of callback c when that event started.
Registrations(c) ==
    Cardinality({i \in 1..Len(fired.start) : fired.start[i] = c})

\* C2 (as claimed): when set_position(v) has returned successfully, the
\* local position equals v and every registered callback was invoked
\* with v.
C2_SetPositionUpdatesPosition ==
    \A t \in Tasks :
        (task[t].pc = "done" /\ task[t].op = "set" /\ task[t].result = "ok")
        => /\ position = task[t].arg
           /\ \A c \in CallbackIds :
                  Registrations(c) > 0 => Invocations(c, task[t].arg) > 0

\* The operation of task t is the only one so far and no link has dropped:
\* nothing but its own transport calls disturbs it.
Undisturbed == ops = 1 /\ drops = 0

\* C3 (as claimed): an operation whose transport call raises BleakDBusError
\* on attempts 1 and 2 and would succeed on attempt 3 returns successfully
\* after exactly two forced disconnects and two backoff waits.
C3_SoftTwiceThenSuccess ==
    \A t \in Tasks :
        (/\ task[t].pc = "done"
         /\ task[t].plan = [kind |-> "soft", fails |-> 2]
         /\ task[t].calls >= 1
         /\ Undisturbed)
        => /\ task[t].result = "ok"
           /\ task[t].discs = 2
           /\ task[t].sleeps = 2

\* C4 (as claimed): when every transport call raises a generic BleakError,
\* the operation disconnects after each failure, issues the call exactly
\* DEFAULT_ATTEMPTS times and then raises that error to its caller.
C4_GenericErrorUsesWholeBudget ==
    \A t \in Tasks :
        (/\ task[t].pc = "done"
         /\ task[t].plan = [kind |-> "generic", fails |-> DEFAULT_ATTEMPTS]
         /\ task[t].calls >= 1
         /\ Undisturbed)
        => /\ task[t].result = "generic"
           /\ task[t].calls = DEFAULT_ATTEMPTS
           /\ task[t].discs = DEFAULT_ATTEMPTS

\* C5 (as claimed): an attempt that finds its characteristic handle missing
\* ends the operation with the characteristic-missing error after exactly
\* one attempt, with no backoff wait and no transport call made.
C5_CharacteristicMissingFirstAttempt ==
    [][\A t \in Tasks :
         (/\ task[t].pc = "attempt"
          /\ task'[t].pc # "attempt"
          /\ NeededChar(t) = None
          /\ Undisturbed)
         => /\ task'[t].pc = "done"
            /\ task'[t].result = "charmissing"
            /\ task'[t].attempt = 0
            /\ task'[t].sleeps = 0
            /\ task'[t].calls = 0]_vars

\* Tasks inside establish_connection or the resolution that follows it.
Establishing == {t \in Tasks : task[t].pc \in {"connecting", "get_services"}}

\* C6: concurrent _ensure_connected calls share one connect: at most one
\* establish_connection with its resolution pass is under way, and none
\* is started or under way while the stored session is connected.
C6_SingleConnect ==
    /\ Cardinality(Establishing) <= 1
    /\ Establishing # {} => ~IsConnected

\* Two callers entered _ensure_connected on a disconnected session; one
\* connected, the other waited for the lock and returned from the check
\* under the lock: one establish_connection call in all.
C6_Witness ==
    \E t, u \in Tasks :
        /\ t # u
        /\ task[t].op \in {"get", "set"} /\ task[t].pc \in {"io", "op_wait", "attempt"}
        /\ task[u].op \in {"get", "set"} /\ task[u].pc \in {"ensure", "op_acquire"}
        /\ task[u].waited
        /\ IsConnected
        /\ connects = 1

\* C7 (as claimed): a transport read/write call is issued only while the
\* stored session is connected.
C7_CallOnlyWhileConnected ==
    [][\A t \in Tasks :
         (task[t].pc = "attempt" /\ task'[t].pc = "io") => IsConnected]_vars

\* C8 (as claimed): no transport read/write call is issued while the read
\* or the write handle is unresolved.
C8_CallOnlyWithBothHandles ==
    [][\A t \in Tasks :
         (task[t].pc = "attempt" /\ task'[t].pc = "io")
         => (readChar # None /\ writeChar # None)]_vars

\* C9: the disconnect the idle timer starts changes neither the position
\* nor the callback list and invokes no callback; when it completes, the
\* session handle is released, both handles are unresolved and the link
\* of the session it released is down.
C9_IdleDisconnectFrame ==
    [][\A t \in Tasks :
         (task'[t].op = "timed" \/ task[t].op = "timed") /\ task'[t] # task[t]
         => /\ position' = position
            /\ callbacks' = callbacks
            /\ fired' = fired
            /\ task'[t].pc = "done"
               => /\ client' = None
                  /\ readChar' = None
                  /\ writeChar' = None
                  /\ task[t].locClient \notin linkUp']_vars

\* After one update that read a position, with callbacks registered and
\* no drop, the timed disconnect has brought the link down and finished.
C9_Witness ==
    \E t \in Tasks :
        /\ task[t].op = "timed" /\ task[t].pc = "done"
        /\ ops = 1 /\ drops = 0 /\ connects = 1
        /\ linkUp = {}
        /\ position # 0
        /\ callbacks # <<>>

\* C10 (as claimed): when a callback unregisters itself inside its own
\* invocation, every other callback registered at the start of that event
\* is still invoked exactly once per registration.
C10_SelfUnregisterKeepsDelivery ==
    (\E i \in 1..Len(fired.start) : fired.start[i] \in SelfUnregistering)
    => \A c \in CallbackIds \ SelfUnregistering :
           Cardinality({j \in 1..Len(fired.log) : fired.log[j][1] = c})
               = Registrations(c)

\* C11: when an update that did not fail read the two bytes the device
\* holds, and those bytes are the ones a set_position(v) wrote, the local
\* position equals v.
C11_RoundTrip ==
    \A t \in Tasks, v \in Positions :
        (/\ task[t].pc = "done" /\ task[t].op = "get" /\ task[t].result = "ok"
         /\ task[t].data = devValue
         /\ devValue = Pack(v))
        => position = v

\* set_position(300) wrote both bytes, a later update read them back.
C11_Witness ==
    \E t \in Tasks :
        /\ task[t].pc = "done" /\ task[t].op = "get" /\ task[t].result = "ok"
        /\ task[t].data = devValue
        /\ devValue = Pack(300)
        /\ position = 300
        /\ ops = 2

\* C12: under fair scheduling and transport calls that terminate, every
\* started operation (update, set_position, stop) and every timed
\* disconnect the timer created reaches its end: it returned or raised.
C12_EveryOperationEnds ==
    \A t \in Tasks : (task[t].pc # "idle") ~> (task[t].pc = "done")

\* A timed disconnect queues on the connect lock behind a foreground
\* operation that is connecting.
C12_Witness ==
    \E t, u \in Tasks :
        /\ task[t].op = "timed" /\ task[t].pc = "disc_wait"
        /\ task[u].op \in {"get", "set"} /\ task[u].pc = "connecting"
        /\ connHolder = u

\* C13: _execute_disconnect always leaves the session handle released and
\* both handles unresolved; on a session that is not connected it makes no
\* transport call, stop() and the timed disconnect end without error, and
\* a session that was already cleared stays exactly as it was.
C13_DisconnectIdempotent ==
    [][\A t \in Tasks :
         (task[t].pc = "disc_locked" /\ task'[t].pc # "disc_locked")
         => /\ client' = None /\ readChar' = None /\ writeChar' = None
            /\ ~IsConnected
               => /\ task'[t].pc \notin {"stop_notify", "disconnecting"}
                  /\ linkUp' = linkUp
                  /\ task[t].op \in {"stop", "timed"}
                     => task'[t].pc = "done" /\ task'[t].result = "ok"
            /\ (client = None /\ readChar = None /\ writeChar = None)
               => sess' = sess]_vars

\* An update connected and read a position, the timed disconnect brought
\* the link down and ended, and a stop() after it has ended as well.
C13_Witness ==
    \E t \in Tasks :
        /\ task[t].op = "stop" /\ task[t].pc = "done" /\ task[t].result = "ok"
        /\ \A u \in Tasks \ {t} : task[u].pc = "idle"
        /\ ops = 2 /\ connects = 1 /\ drops = 0
        /\ position # 0
        /\ timers = 0 /\ ~timerHandle
        /\ linkUp = {}

\* C14 (as claimed): an operation whose transport call raises
\* BleakNotFoundError raises that error to its caller after a single
\* attempt; the retry wrapper does not run it again.
C14_NotFoundIsFatal ==
    \A t \in Tasks :
        (/\ task[t].pc = "done"
         /\ task[t].plan = [kind |-> "notfound", fails |-> 1]
         /\ task[t].calls >= 1
         /\ Undisturbed)
        => /\ task[t].result = "notfound"
           /\ task[t].attempt = 0
           /\ task[t].calls = 1

\* C15: a read whose payload is not two bytes leaves the position as it
\* was, returns to its caller without raising, leaves the session, its
\* handles and the link as they were and gives up the operation lock.
C15_DecodeErrorKeepsPosition ==
    [][\A t \in Tasks :
         (/\ task[t].pc = "io" /\ task[t].op = "get"
          /\ task'[t].pc = "done"
          /\ ~UnpackOK(task'[t].data))
         => /\ position' = position
            /\ task'[t].result = "ok"
            /\ sess' = sess /\ linkUp' = linkUp
            /\ opHolder' # t]_vars

\* An update got a one-byte payload and returned; the session is still
\* connected and the operation that queued behind it now has the lock.
C15_Witness ==
    \E t, u \in Tasks :
        /\ task[t].pc = "done" /\ task[t].op = "get" /\ task[t].result = "ok"
        /\ Len(task[t].data) = 1
        /\ task[u].pc = "op_wait" /\ opHolder = u
        /\ IsConnected

\* C16: when establish_connection raises, the caller of update or
\* set_position gets that error, the call has made no transport
\* read/write, the connect lock is given up, and the session is left not
\* connected and otherwise as it was, so the next call connects afresh.
C16_ConnectFailurePropagates ==
    [][\A t \in Tasks :
         (task[t].pc = "connecting" /\ task'[t].pc = "done")
         => /\ task'[t].result \in {"notfound", "generic"}
            /\ task'[t].calls = 0
            /\ connHolder' # t
            /\ ~IsConnected'
            /\ sess' = sess /\ timerv' = timerv]_vars

\* The first operation ended in a failed connect (no timer was ever
\* armed, nothing was disconnected); the second one is inside a fresh
\* establish_connection.
C16_Witness ==
    \E t \in Tasks :
        /\ task[t].pc = "connecting" /\ task[t].op \in {"get", "set"}
        /\ \A u \in Tasks \ {t} : task[u].pc = "idle"
        /\ ops = 2 /\ connects = 2 /\ drops = 0
        /\ linkUp = {}
        /\ ~timerHandle /\ timers = 0 /\ ~expected
        /\ connHolder = t

\* C17 (as claimed): the connect lock is never acquired by a task that
\* holds the operation lock.
C17_ConnectGateNotUnderOperationGate ==
    [][\A t \in Tasks :
         (connHolder' = t /\ connHolder # t) => opHolder # t]_vars

\* C17 (amended): the locks nest in one order only, operation lock first:
\* a task that asks for the operation lock, waits for it or gets it does
\* not hold the connect lock and is not waiting for it.
C17_OperationGateNotUnderConnectGate ==
    [][\A t \in Tasks :
         (\/ task[t].pc = "op_acquire" /\ task'[t].pc # "op_acquire"
          \/ opHolder' = t /\ opHolder # t)
         => /\ connHolder # t /\ connHolder' # t
            /\ \A i \in 1..Len(connQueue') : connQueue'[i] # t]_vars

\* The recovery path: a task inside its guarded operation, holding the
\* operation lock, holds the connect lock for the forced disconnect.
C17_Witness ==
    \E t \in Tasks :
        /\ task[t].op \in {"get", "set"}
        /\ opHolder = t /\ connHolder = t
        /\ task[t].pc = "disconnecting"

\* C18 (as claimed): the session handle, the two characteristic handles
\* and the idle timer are written only by a task that holds the connect
\* lock: a step that changes one of them, or rearms the timer on the path
\* of lines 134-136, is a step of the lock's holder.
C18_WritesOnlyUnderConnectGate ==
    [][(\/ client' # client \/ readChar' # readChar \/ writeChar' # writeChar
        \/ timerHandle' # timerHandle \/ timers' # timers
        \/ \E t \in Tasks : /\ task[t].pc = "ensure"
                             /\ task'[t].ensureLeft < task[t].ensureLeft)
       => /\ connHolder # NoTask
          /\ task'[connHolder] # task[connHolder]]_vars

\* C19 (as claimed): the handles stored with a connected session were
\* resolved from that session's catalogue, never carried over from an
\* earlier one (a handle records the session it was resolved from).
C19_HandlesOfCurrentSession ==
    IsConnected
    => /\ readChar \in {None, client}
       /\ writeChar \in {None, client}

\* A step in which _ensure_connected of task t returns normally.
EnsureReturned(t) ==
    /\ task[t].pc \in {"ensure", "conn_locked", "connecting", "get_services"}
    /\ task'[t].pc \in {"ensure", "op_acquire"}
    /\ task'[t].ensureLeft = task[t].ensureLeft - 1

\* C20: at most one idle timer is pending at any time; every
\* _ensure_connected that returns leaves exactly one pending, held in
\* _disconnect_timer; a timer that fires leaves none pending.
C20_OneTimerPending ==
    [][/\ timers' <= 1
       /\ \A t \in Tasks :
              /\ EnsureReturned(t) => timers' = 1 /\ timerHandle'
              /\ (task[t].pc = "idle" /\ task'[t].pc = "created")
                 => timers' = 0 /\ ~timerHandle']_vars

\* update() connected afresh, which armed the timer, and its second
\* _ensure_connected found the session connected and rearmed it.
C20_Witness ==
    \E t \in Tasks :
        /\ task[t].op = "get" /\ task[t].pc = "op_acquire"
        /\ ops = 1 /\ connects = 1
        /\ timers = 1 /\ timerHandle

\* C21 (as claimed): the notification of a link going down is logged
\* without warning exactly when the link went down by a disconnect() of
\* the session; every unsolicited drop is logged as a warning.
C21_DropClassification ==
    [][/\ drops' = drops + 1 => Disconnected = "warning"
       /\ (linkUp' # linkUp /\ linkUp' \subseteq linkUp /\ drops' = drops)
          => Disconnected = "debug"]_vars

\* C22 (as claimed): _ensure_connected fetches the service list again only
\* when the first resolution left a handle unresolved, and it returns
\* normally only with both the read and the write handle resolved.
C22_BothHandlesOrGiveUp ==
    [][\A t \in Tasks :
         /\ (task[t].pc = "connecting" /\ task'[t].pc = "get_services")
            => (readChar' = None \/ writeChar' = None)
         /\ EnsureReturned(t)
            => (readChar' # None /\ writeChar' # None)]_vars

\* C23 (as claimed): when update or set_position has returned
\* successfully, the callbacks registered at the start of the event were
\* invoked once per registration, in registration order, each with the
\* position the operation established.
C23_CallbacksOnceInOrder ==
    \A t \in Tasks :
        (task[t].pc = "done" /\ task[t].op \in {"get", "set"} /\ task[t].result = "ok")
        => /\ Len(fired.log) = Len(fired.start)
           /\ \A i \in 1..Len(fired.log) :
                  /\ fired.log[i][1] = fired.start[i]
                  /\ fired.log[i][2] = position
                  /\ task[t].op = "set" => fired.log[i][2] = task[t].arg

\* C24 (as claimed): stop() and the timed disconnect do not release the
\* session handle or clear a handle while the read/write call of an
\* update or set_position is in flight on that session.
C24_NoTeardownUnderCallInFlight ==
    [][\A t \in Tasks :
         (/\ task[t].op \in {"stop", "timed"}
          /\ task[t].pc = "disc_locked"
          /\ sess' # sess)
         => ~ \E u \in Tasks : /\ task[u].pc = "io"
                                /\ task[u].locClient = client]_vars

\* C25 (as claimed): whenever an idle timer is pending, a session handle
\* is stored.
C25_TimerOnlyWithSession == timers > 0 => client # None

\* C25 (amended): no step of _execute_disconnect touches the idle timer,
\* which stays pending after stop() or a recovery disconnect; the timed
\* disconnect that then finds no session stored makes no transport call,
\* ends without error and leaves the session handle unset and the links
\* as they were.
C25_DisconnectKeepsTimer ==
    [][\A t \in Tasks :
         /\ (task[t].pc \in {"disc", "disc_wait", "disc_locked", "stop_notify",
                              "disconnecting"} /\ task'[t] # task[t])
            => timers' = timers /\ timerHandle' = timerHandle
         /\ (task[t].op = "timed" /\ task[t].pc = "disc_locked" /\ client = None
              /\ task'[t] # task[t])
            => /\ task'[t].pc = "done" /\ task'[t].result = "ok"
               /\ client' = None /\ linkUp' = linkUp]_vars

\* An update connected and read a position, stop() has brought the link
\* down and ended, and the idle timer is still pending.
C25_Witness ==
    \E t \in Tasks :
        /\ task[t].op = "stop" /\ task[t].pc = "done" /\ task[t].result = "ok"
        /\ connects = 1 /\ drops = 0 /\ linkUp = {}
        /\ position # 0
        /\ client = None
        /\ timers = 1 /\ timerHandle

\* C26: the position changes and callbacks are invoked only in the last
\* step of an update or set_position that returns successfully (the list
\* itself also changes by register_callback and its closure); a call
\* that ends by raising changes neither the position nor the callback
\* list, invokes no callback and no longer holds the operation lock, which
\* has gone to the first queued operation.
C26_FailedCallLeavesNoTrace ==
    [][/\ (position' # position \/ callbacks' # callbacks
           \/ (fired' # fired /\ fired' # NotFired))
          => \/ \E t \in Tasks : /\ task[t].pc \in {"io", "fire"}
                                  /\ task'[t].pc = "done"
                                  /\ task'[t].result = "ok"
             \/ (task' = task /\ position' = position /\ fired' = fired)
       /\ \A t \in Tasks :
              (/\ task[t].op \in {"get", "set"}
               /\ task[t].pc # "done" /\ task'[t].pc = "done"
               /\ task'[t].result # "ok")
              => /\ position' = position /\ callbacks' = callbacks
                 /\ fired' = NotFired
                 /\ opHolder' # t
                 /\ \A i \in 1..Len(opQueue') : opQueue'[i] # t
                 /\ (opHolder = t /\ opQueue # <<>>) => opHolder' = Head(opQueue)]_vars

\* An operation whose transport call failed has raised to its caller
\* while a second operation queued behind it; that one now has the lock.
C26_Witness ==
    \E t, u \in Tasks :
        /\ task[t].op \in {"get", "set"} /\ task[t].pc = "done"
        /\ task[t].result \notin {"ok", "none"} /\ task[t].calls >= 1
        /\ task[u].op \in {"get", "set"} /\ task[u].pc = "op_wait"
        /\ opHolder = u

====
